---------------------------- MODULE Spec2Model ----------------------------
(***************************************************************************)
(* European option pricing and implied-volatility engine                   *)
(* (krut62134/quantitative-options-pricing).                               *)
(*                                                                         *)
(* The module holds three state machines over one set of variables:        *)
(*   Spec        the MonteCarlo instance (models/monte_carlo.py):          *)
(*               simulate() with its parallel batches, and the queries;    *)
(*   SpecSolver  implied_volatility_newton and its dataset driver          *)
(*               (data/compute_implied_vol.py) over BlackScholes           *)
(*               (models/black_scholes.py);                                *)
(*   SpecParity  BlackScholes prices fed to validate_put_call_parity       *)
(*               (utils/validation.py).                                    *)
(*                                                                         *)
(* Floating-point numbers are decimal fixed-point integers: the real x is  *)
(* the integer x * ONE, ONE = 10^8.  TLC's integers are 32 bits wide, so   *)
(* representable reals lie in (-21.47, 21.47); products and quotients are  *)
(* computed limb by limb so that no intermediate value leaves that range.  *)
(* IEEE's NaN is the reserved value NaN, propagated by every operation     *)
(* that reads it.                                                          *)
(***************************************************************************)
EXTENDS Integers, Naturals, Sequences, FiniteSets, TLC

(***************************************************************************)
(* Fixed-point arithmetic                                                  *)
(***************************************************************************)
LIMB == 10 * 1000
ONE == LIMB * LIMB
MaxFix == 2147483647
NaN == 0 - MaxFix

IsNaN(x) == x = NaN

Abs(x) == IF x < 0 THEN 0 - x ELSE x
Sgn(x) == IF x < 0 THEN 0 - 1 ELSE 1
Min(a, b) == IF a < b THEN a ELSE b
Max(a, b) == IF a > b THEN a ELSE b

\* a * b / ONE for a, b >= 0, rounded to nearest, by 4-digit limbs
MulAbs(a, b) ==
    LET ah == a \div LIMB
        al == a % LIMB
        bh == b \div LIMB
        bl == b % LIMB
        x1 == ah * bl
        x2 == al * bh
        z  == (al * bl + (ONE \div 2)) \div LIMB
    IN  ah * bh + (x1 \div LIMB) + (x2 \div LIMB)
          + (((x1 % LIMB) + (x2 % LIMB) + z) \div LIMB)

\* a * b, rounded to nearest (ties away from zero)
Mul(a, b) ==
    IF IsNaN(a) \/ IsNaN(b) THEN NaN
    ELSE Sgn(a) * Sgn(b) * MulAbs(Abs(a), Abs(b))

\* <<q, r>> with 2 * p[2] = q' * b + r' added to the running quotient p[1]
Dbl(p, b) ==
    IF p[2] >= b - p[2] THEN <<2 * p[1] + 1, p[2] - (b - p[2])>>
    ELSE <<2 * p[1], 2 * p[2]>>

AddR(p, r, b) ==
    IF p[2] >= b - r THEN <<p[1] + 1, p[2] - (b - r)>>
    ELSE <<p[1], p[2] + r>>

\* <<floor(10 r / b), (10 r) mod b>> for 0 <= r < b
Times10(r, b) ==
    IF b <= MaxFix \div 10 THEN <<(10 * r) \div b, (10 * r) % b>>
    ELSE Dbl(AddR(Dbl(Dbl(<<0, r>>, b), b), r, b), b)

\* <<q, r>> after n more decimal digits of the quotient
RECURSIVE DivDigits(_, _, _, _)
DivDigits(q, r, b, n) ==
    IF n = 0 THEN <<q, r>>
    ELSE LET t == Times10(r, b)
         IN  DivDigits(10 * q + t[1], t[2], b, n - 1)

\* The largest magnitude a quotient may take: beyond it the quotient saturates
\* (IEEE's division overflows to +-inf only far beyond every value used here).
SatFix == 10 * ONE

\* a * ONE / b for a >= 0, b > 0, rounded to nearest, saturated at SatFix
DivAbs(a, b) ==
    IF a \div b >= SatFix \div ONE THEN SatFix
    ELSE LET p == DivDigits(a \div b, a % b, b, 8)
         IN  IF p[2] >= b - p[2] THEN p[1] + 1 ELSE p[1]

\* a / b, rounded to nearest; x/0 is +-inf (saturated), 0/0 is NaN
Div(a, b) ==
    IF IsNaN(a) \/ IsNaN(b) THEN NaN
    ELSE IF b = 0 THEN (IF a = 0 THEN NaN ELSE Sgn(a) * SatFix)
    ELSE Sgn(a) * Sgn(b) * DivAbs(Abs(a), Abs(b))

\* a / n for a positive integer n, rounded to nearest
DivInt(a, n) == Sgn(a) * ((Abs(a) + n \div 2) \div n)

(***************************************************************************)
(* Elementary functions (numpy's exp, log, sqrt; scipy's norm.cdf, pdf)    *)
(***************************************************************************)
RECURSIVE ISqrtIter(_, _)
ISqrtIter(n, y) ==
    LET z == (y + n \div y) \div 2
    IN  IF z >= y THEN y ELSE ISqrtIter(n, z)

\* floor(sqrt(n)) for an integer n >= 0
ISqrt(n) == IF n < 2 THEN n ELSE ISqrtIter(n, n \div 2)

RECURSIVE SqrtIter(_, _, _)
SqrtIter(a, y, n) ==
    IF n = 0 THEN y
    ELSE SqrtIter(a, (y + Div(a, y)) \div 2, n - 1)

\* np.sqrt: NaN for a negative argument
Sqrt(a) ==
    IF IsNaN(a) \/ a < 0 THEN NaN
    ELSE IF a = 0 THEN 0
    ELSE SqrtIter(a, Max(ISqrt(a) * LIMB, 1), 3)

RECURSIVE ExpSeries(_, _, _, _)
ExpSeries(a, term, k, acc) ==
    IF term = 0 THEN acc
    ELSE LET t == DivInt(Mul(term, a), k)
         IN  ExpSeries(a, t, k + 1, acc + t)

\* e^a by halving the argument down to |a| <= 1/2 and squaring back;
\* 0 far in the lower tail and saturated at SatFix
RECURSIVE ExpFix(_)
ExpFix(a) ==
    IF Abs(a) <= ONE \div 2 THEN ExpSeries(a, ONE, 1, ONE)
    ELSE LET h == ExpFix(DivInt(a, 2))
         IN  IF h > 32 * (ONE \div 10) THEN SatFix ELSE Mul(h, h)

Exp(a) ==
    IF IsNaN(a) THEN NaN
    ELSE IF a <= 0 - SatFix THEN 0
    ELSE IF a > 3 * ONE THEN SatFix
    ELSE Min(ExpFix(a), SatFix)

RECURSIVE AtanhSeries(_, _, _, _)
AtanhSeries(z2, pow, k, acc) ==
    IF pow = 0 THEN acc
    ELSE AtanhSeries(z2, Mul(pow, z2), k + 2, acc + DivInt(pow, k))

\* ln(a) for 1/2 <= a <= 2: 2 atanh((a - 1) / (a + 1))
LnNear1(a) ==
    LET z == Div(a - ONE, a + ONE)
    IN  2 * AtanhSeries(Mul(z, z), z, 1, 0)

LN2 == LnNear1(2 * ONE)

RECURSIVE LnReduce(_, _)
LnReduce(a, acc) ==
    IF a > 2 * ONE THEN LnReduce(a \div 2, acc + LN2)
    ELSE IF a < ONE \div 2 THEN LnReduce(2 * a, acc - LN2)
    ELSE acc + LnNear1(a)

\* np.log: -inf (saturated) at 0, NaN for a negative argument
Ln(a) ==
    IF IsNaN(a) \/ a < 0 THEN NaN
    ELSE IF a = 0 THEN 0 - SatFix
    ELSE LnReduce(a, 0)

\* 1 / sqrt(2 pi)
InvSqrt2Pi == 39894228

\* The argument beyond which the normal density and the tails of the normal
\* distribution are below the resolution 1/ONE.
TailCut == 6 * ONE

\* norm.pdf
NormPdf(d) ==
    IF IsNaN(d) THEN NaN
    ELSE IF Abs(d) >= TailCut THEN 0
    ELSE Mul(InvSqrt2Pi, Exp(0 - Mul(DivInt(d, 2), d)))

\* Coefficients of the rational approximation of the normal tail
\* (Abramowitz and Stegun 26.2.17, absolute error below 7.5e-8).
PhiP == 23164190
PhiB == <<31938153, 0 - 35656378, 178147794, 0 - 182125598, 133027443>>

\* the upper tail 1 - Phi(d) for d >= 0
NormTail(d) ==
    LET t  == Div(ONE, ONE + Mul(PhiP, d))
        h5 == PhiB[5]
        h4 == PhiB[4] + Mul(t, h5)
        h3 == PhiB[3] + Mul(t, h4)
        h2 == PhiB[2] + Mul(t, h3)
        h1 == PhiB[1] + Mul(t, h2)
    IN  Mul(NormPdf(d), Mul(t, h1))

\* norm.cdf
NormCdf(d) ==
    IF IsNaN(d) THEN NaN
    ELSE IF d >= TailCut THEN ONE
    ELSE IF d <= 0 - TailCut THEN 0
    ELSE IF d >= 0 THEN ONE - NormTail(d)
    ELSE NormTail(0 - d)

\* IEEE addition, subtraction and comparison: NaN in, NaN (or FALSE) out
Add(a, b) == IF IsNaN(a) \/ IsNaN(b) THEN NaN ELSE a + b
Sub(a, b) == IF IsNaN(a) \/ IsNaN(b) THEN NaN ELSE a - b
Neg(a) == IF IsNaN(a) THEN NaN ELSE 0 - a
Lt(a, b) == ~IsNaN(a) /\ ~IsNaN(b) /\ a < b
Gt(a, b) == ~IsNaN(a) /\ ~IsNaN(b) /\ a > b
FAbs(a) == IF IsNaN(a) THEN NaN ELSE Abs(a)
Saturate(a) == IF IsNaN(a) THEN NaN ELSE Max(0 - SatFix, Min(a, SatFix))

(***************************************************************************)
(* BlackScholes (models/black_scholes.py)                                  *)
(***************************************************************************)
\* 0.5 * sigma**2
HalfSquare(sigma) == Mul(DivInt(sigma, 2), sigma)

\* S / K on Python numbers raises ZeroDivisionError when K is zero
D1Raises(K) == K = 0

\* BlackScholes._calculate_d1
CalculateD1(S, K, T, r, sigma) ==
    LET numerator   == Add(Ln(Div(S, K)), Mul(Add(r, HalfSquare(sigma)), T))
        denominator == Mul(sigma, Sqrt(T))
    IN  Div(numerator, denominator)

\* BlackScholes._calculate_d2
CalculateD2(d1, T, sigma) == Saturate(Sub(d1, Mul(sigma, Sqrt(T))))

\* BlackScholes.__init__: the parameters and d1, d2 computed once
\* (built and at record, for the solver, whether and in which iteration the
\* object was constructed)
BlackScholes(S, K, T, r, sigma) ==
    LET d1 == CalculateD1(S, K, T, r, sigma)
    IN  [S |-> S, K |-> K, T |-> T, r |-> r, sigma |-> sigma,
         d1 |-> d1, d2 |-> CalculateD2(d1, T, sigma),
         built |-> TRUE, at |-> 0]

\* K * exp(-r * T)
DiscountedStrike(bs) == Mul(bs.K, Exp(Mul(Neg(bs.r), bs.T)))

\* BlackScholes.call_price
BSCallPrice(bs) ==
    Sub(Mul(bs.S, NormCdf(bs.d1)), Mul(DiscountedStrike(bs), NormCdf(bs.d2)))

\* put_price with d1 where line 54 reads d2
BSPutPriceD1(bs) ==
    Sub(Mul(DiscountedStrike(bs), NormCdf(Neg(bs.d1))),
        Mul(bs.S, NormCdf(Neg(bs.d1))))

\* BlackScholes.put_price
BSPutPrice(bs) ==
    Sub(Mul(DiscountedStrike(bs), NormCdf(Neg(bs.d2))),
        Mul(bs.S, NormCdf(Neg(bs.d1))))

(***************************************************************************)
(* State                                                                   *)
(***************************************************************************)
VARIABLES
    \* MonteCarlo instance (models/monte_carlo.py)
    mc,                 \* S, K, T, r, sigma, n_simulations, n_jobs
    simulated_prices,   \* the sample cache: [set |-> FALSE] is Python's None
    mcpc,               \* position of the caller inside simulate()
    results,            \* per batch of the last simulate(): done, seed, out
    runs,               \* completed simulate() calls
    mcout,              \* outcome of the last query
    \* implied_volatility_newton (data/compute_implied_vol.py)
    args,               \* the arguments of the call in progress
    spc,                \* "idle", "loop", "priced", "returned" or "raised"
    sigma,              \* the local sigma
    iter,               \* the loop index i: iterations completed
    bs,                 \* the BlackScholes object of the last iteration
    price,              \* the local price
    vega,               \* the local vega
    diff,               \* the local diff
    ret,                \* the returned value
    \* compute_iv_for_dataset (data/compute_implied_vol.py)
    dataset,            \* the rows of the input frame
    idx,                \* the row being processed (1-based)
    dpc,                \* "direct", "raw", "next", "in_call" or "done"
    iv_list,
    failed,
    df_clean,           \* the returned frame: indices of the rows kept
    \* test_known_values and validate_put_call_parity (utils/validation.py)
    pp,                 \* S, K, T, r, sigma of the pricer under test
    ppc,                \* "start", "priced" or "validated"
    quote,              \* the call and put prices handed to the check
    parity,             \* the dictionary validate_put_call_parity returns
    \* BinomialTree and its convergence test (models/binomial_tree.py)
    bt,                 \* S, K, T, r, sigma, n_steps, dt, u, d, p
    btpc,               \* "next", "idle", "induction", "returned" or "done"
    btop,               \* the method running or last run: "call" or "put"
    V,                  \* the payoff vector of the backward induction
    rounds,             \* rounds of the induction loop completed
    btret,              \* the value the last method returned
    sweep,              \* step counts of the convergence test already run
    errors,             \* the call-price error recorded for each step count
    \* test_known_values and the comparison of __main__ (utils/validation.py)
    tpc,                \* "test1", "test2", "test3", "compare" or "done"
    report,             \* the PASS / FAIL lines printed so far
    table,              \* the comparison printed for each scenario so far
    \* a BlackScholes instance and its callers (models/black_scholes.py)
    bso,                \* the instance: S, K, T, r, sigma, d1, d2
    bsq                 \* the last query made on it and what it returned

mcVars == <<mc, simulated_prices, mcpc, results, runs, mcout>>
solverVars == <<args, spc, sigma, iter, bs, price, vega, diff, ret>>
driverVars == <<dataset, idx, dpc, iv_list, failed, df_clean>>

parityVars == <<pp, ppc, quote, parity>>

treeVars == <<bt, btpc, btop, V, rounds, btret, sweep, errors>>

suiteVars == <<tpc, report, table>>

bsVars == <<bso, bsq>>

vars == <<mcVars, solverVars, driverVars, parityVars, treeVars, suiteVars,
          bsVars>>

\* what the actions of one machine leave alone
notMC == <<solverVars, driverVars, parityVars, treeVars, suiteVars, bsVars>>
notSolver == <<mcVars, parityVars, treeVars, suiteVars, bsVars>>
notParity == <<mcVars, solverVars, driverVars, treeVars, suiteVars, bsVars>>
notTree == <<mcVars, solverVars, driverVars, parityVars, suiteVars, bsVars>>
notSuite == <<mcVars, solverVars, driverVars, parityVars, treeVars, bsVars>>
notBS == <<mcVars, solverVars, driverVars, parityVars, treeVars, suiteVars>>

(***************************************************************************)
(* Bounds of the model                                                     *)
(***************************************************************************)
MaxSims == 5
MaxJobs == 3
CpuCount == 2
MaxRuns == 2

(***************************************************************************)
(* MonteCarlo (models/monte_carlo.py)                                      *)
(***************************************************************************)
None == [set |-> FALSE, arr |-> <<>>]
Some(a) == [set |-> TRUE, arr |-> a]

NoOutcome == [op |-> "none", kind |-> "none", option_type |-> "",
              payoff |-> "", value |-> <<>>]

\* np.random.seed(seed); np.random.standard_normal(batch_size): the k-th draw
\* of the stream is a function of the seed and of k alone.  The stream is a
\* fixed table of deviates read from an offset that the seed selects.
Deviates == <<0 - 120000000, 35000000, 0 - 4000000, 81000000, 0 - 63000000,
              152000000, 11000000, 0 - 27000000, 49000000, 0 - 95000000,
              7000000>>

StandardNormal(seed, k) == Deviates[((seed * 4 + k * 3) % Len(Deviates)) + 1]

\* MonteCarlo._simulate_batch: one terminal price per draw
\* S_T = S * exp((r - 0.5 sigma^2) T + sigma sqrt(T) Z)
TerminalPrice(m, seed, k) ==
    LET drift     == Mul(Sub(m.r, HalfSquare(m.sigma)), m.T)
        diffusion == Mul(Mul(m.sigma, Sqrt(m.T)), StandardNormal(seed, k))
    IN  Mul(m.S, Exp(Add(drift, diffusion)))

SimulateBatch(m, batch_size, seed) ==
    [k \in 1..batch_size |->
        [seed |-> seed, k |-> k, ST |-> TerminalPrice(m, seed, k)]]

\* simulate(), lines 61-65: the number of batches
NCores(m) == IF m.n_jobs > 0 THEN m.n_jobs ELSE CpuCount

\* simulate(), line 67
BatchSize(m) == m.n_simulations \div NCores(m)

RECURSIVE Concatenate(_)
Concatenate(rs) ==
    IF rs = <<>> THEN <<>> ELSE Head(rs) \o Concatenate(Tail(rs))

RECURSIVE SumSeq(_)
SumSeq(q) == IF q = <<>> THEN 0 ELSE Add(Head(q), SumSeq(Tail(q)))

\* np.mean: NaN for an empty array
Mean(q) ==
    IF Len(q) = 0 THEN NaN
    ELSE IF IsNaN(SumSeq(q)) THEN NaN ELSE DivInt(SumSeq(q), Len(q))

\* np.std: the population standard deviation
Std(q) ==
    LET mu == Mean(q)
    IN  Sqrt(Mean([i \in 1..Len(q) |-> Mul(Sub(q[i], mu), Sub(q[i], mu))]))

CallPayoffs(m, arr) == [i \in 1..Len(arr) |-> Max(arr[i].ST - m.K, 0)]
PutPayoffs(m, arr)  == [i \in 1..Len(arr) |-> Max(m.K - arr[i].ST, 0)]

DiscountFactor(m) == Exp(Mul(Neg(m.r), m.T))

\* str.lower() on the option sides the model passes
Lower(t) ==
    CASE t = "Call" -> "call"
      [] t = "CALL" -> "call"
      [] OTHER      -> t

OptionTypes == {"call", "put", "Call", "straddle"}

\* norm.ppf((1 + confidence) / 2) for the confidence levels the model passes
\* (in percent)
Confidences == {95, 99}
ZScore(confidence) ==
    CASE confidence = 95 -> 195996398
      [] confidence = 99 -> 257582930

\* confidence_interval, line 125: the branch that call-side payoffs take
UsesCallPayoff(option_type) == Lower(option_type) = "call"

\* confidence_interval, lines 124-142
ConfidenceIntervalOf(m, arr, option_type, confidence) ==
    LET payoffs    == IF UsesCallPayoff(option_type)
                      THEN CallPayoffs(m, arr) ELSE PutPayoffs(m, arr)
        discounted == [i \in 1..Len(payoffs) |->
                          Mul(DiscountFactor(m), payoffs[i])]
        mean_price == Mean(discounted)
        std_error  == Div(Std(discounted), Sqrt(m.n_simulations * ONE))
        margin     == Mul(ZScore(confidence), std_error)
    IN  <<Sub(mean_price, margin), Add(mean_price, margin)>>

MCParams ==
    [S : {ONE}, K : {ONE}, T : {ONE}, r : {ONE \div 20},
     sigma : {ONE \div 5}, n_simulations : 0..MaxSims,
     n_jobs : {0 - 1} \cup 1..MaxJobs]

\* MonteCarlo.__init__
MCInit ==
    /\ mc \in MCParams
    /\ simulated_prices = None
    /\ mcpc = "idle"
    /\ results = <<>>
    /\ runs = 0
    /\ mcout = NoOutcome

\* simulate(), lines 58-73: the batches are handed to the workers
SimulateStart ==
    /\ mcpc = "idle"
    /\ runs < MaxRuns
    /\ results' = [i \in 1..NCores(mc) |->
                       [done |-> FALSE, seed |-> i - 1, out |-> <<>>]]
    /\ mcpc' = "parallel"
    /\ UNCHANGED <<mc, simulated_prices, runs, mcout>>
    /\ UNCHANGED notMC

\* one worker finishes its batch (batch i - 1 of range(n_cores), seed i - 1)
WorkerFinish(i) ==
    /\ mcpc = "parallel"
    /\ ~results[i].done
    /\ results' = [results EXCEPT
           ![i] = [done |-> TRUE,
                   seed |-> results[i].seed,
                   out  |-> SimulateBatch(mc, BatchSize(mc), results[i].seed)]]
    /\ UNCHANGED <<mc, simulated_prices, mcpc, runs, mcout>>
    /\ UNCHANGED notMC

\* line 76 reached while batches are still running: no join
SimulateCombineNoBarrier ==
    /\ mcpc = "parallel"
    /\ \E i \in 1..Len(results) : results[i].done
    /\ simulated_prices' =
           Some(Concatenate([i \in 1..Len(results) |-> results[i].out]))
    /\ mcpc' = "combined"
    /\ UNCHANGED <<mc, results, runs, mcout>>
    /\ UNCHANGED notMC

\* simulate(), line 76: Parallel() has returned every batch, in batch order
\* line 76 extending the cache of an earlier call instead of replacing it
SimulateCombineAppends ==
    /\ mcpc = "parallel"
    /\ \A i \in 1..Len(results) : results[i].done
    /\ simulated_prices' =
           Some((IF simulated_prices.set THEN simulated_prices.arr ELSE <<>>)
                \o Concatenate([i \in 1..Len(results) |-> results[i].out]))
    /\ mcpc' = "combined"
    /\ UNCHANGED <<mc, results, runs, mcout>>
    /\ UNCHANGED notMC

SimulateCombine ==
    /\ mcpc = "parallel"
    /\ \A i \in 1..Len(results) : results[i].done
    /\ simulated_prices' =
           Some(Concatenate([i \in 1..Len(results) |-> results[i].out]))
    /\ mcpc' = "combined"
    /\ UNCHANGED <<mc, results, runs, mcout>>
    /\ UNCHANGED notMC

\* simulate() without the remainder batch of lines 79-82
SimulateRemainderSkipped ==
    /\ mcpc = "combined"
    /\ mcpc' = "idle"
    /\ runs' = runs + 1
    /\ UNCHANGED <<mc, mcout, simulated_prices, results>>
    /\ UNCHANGED notMC

\* simulate(), lines 79-82 with the remainder drawn from the seed of batch 0
SimulateRemainderReusedSeed ==
    /\ mcpc = "combined"
    /\ LET remainder   == mc.n_simulations - Len(simulated_prices.arr)
           extra_prices == SimulateBatch(mc, remainder, 0)
       IN  IF remainder > 0
           THEN /\ simulated_prices' = Some(simulated_prices.arr \o extra_prices)
                /\ results' = Append(results, [done |-> TRUE, seed |-> 0,
                                               out |-> extra_prices])
           ELSE UNCHANGED <<simulated_prices, results>>
    /\ mcpc' = "idle"
    /\ runs' = runs + 1
    /\ UNCHANGED <<mc, mcout>>
    /\ UNCHANGED notMC

\* simulate(), lines 79-82 and the return
SimulateRemainder ==
    /\ mcpc = "combined"
    /\ LET remainder   == mc.n_simulations - Len(simulated_prices.arr)
           extra_prices == SimulateBatch(mc, remainder, NCores(mc))
       IN  IF remainder > 0
           THEN /\ simulated_prices' = Some(simulated_prices.arr \o extra_prices)
                /\ results' = Append(results, [done |-> TRUE,
                                               seed |-> NCores(mc),
                                               out |-> extra_prices])
           ELSE UNCHANGED <<simulated_prices, results>>
    /\ mcpc' = "idle"
    /\ runs' = runs + 1
    /\ UNCHANGED <<mc, mcout>>
    /\ UNCHANGED notMC

\* call_price() without the check of lines 92-93
CallPriceUnguarded ==
    /\ mcpc = "idle"
    /\ mcout' = [op |-> "call_price", kind |-> "return", option_type |-> "",
                 payoff |-> "call",
                 value |-> <<Mul(DiscountFactor(mc),
                                 Mean(CallPayoffs(mc, simulated_prices.arr)))>>]
    /\ UNCHANGED <<mc, simulated_prices, mcpc, results, runs>>
    /\ UNCHANGED notMC

\* call_price()
CallPrice ==
    /\ mcpc = "idle"
    /\ mcout' =
         IF ~simulated_prices.set
         THEN [op |-> "call_price", kind |-> "ValueError", option_type |-> "",
               payoff |-> "", value |-> <<>>]
         ELSE [op |-> "call_price", kind |-> "return", option_type |-> "",
               payoff |-> "call",
               value |-> <<Mul(DiscountFactor(mc),
                               Mean(CallPayoffs(mc, simulated_prices.arr)))>>]
    /\ UNCHANGED <<mc, simulated_prices, mcpc, results, runs>>
    /\ UNCHANGED notMC

\* put_price() computing the payoffs in place of the cached prices
PutPriceInPlace ==
    /\ mcpc = "idle"
    /\ IF ~simulated_prices.set
       THEN /\ mcout' = [op |-> "put_price", kind |-> "ValueError",
                         option_type |-> "", payoff |-> "", value |-> <<>>]
            /\ UNCHANGED simulated_prices
       ELSE /\ mcout' = [op |-> "put_price", kind |-> "return",
                         option_type |-> "", payoff |-> "put",
                         value |-> <<Mul(DiscountFactor(mc),
                                  Mean(PutPayoffs(mc, simulated_prices.arr)))>>]
            /\ simulated_prices' =
                   Some([i \in 1..Len(simulated_prices.arr) |->
                            [simulated_prices.arr[i] EXCEPT
                                !.ST = Max(mc.K - simulated_prices.arr[i].ST,
                                           0)]])
    /\ UNCHANGED <<mc, mcpc, results, runs>>
    /\ UNCHANGED notMC

\* put_price()
PutPrice ==
    /\ mcpc = "idle"
    /\ mcout' =
         IF ~simulated_prices.set
         THEN [op |-> "put_price", kind |-> "ValueError", option_type |-> "",
               payoff |-> "", value |-> <<>>]
         ELSE [op |-> "put_price", kind |-> "return", option_type |-> "",
               payoff |-> "put",
               value |-> <<Mul(DiscountFactor(mc),
                               Mean(PutPayoffs(mc, simulated_prices.arr)))>>]
    /\ UNCHANGED <<mc, simulated_prices, mcpc, results, runs>>
    /\ UNCHANGED notMC

\* confidence_interval(option_type, confidence)
ConfidenceInterval(option_type, confidence) ==
    /\ mcpc = "idle"
    /\ mcout' =
         IF ~simulated_prices.set
         THEN [op |-> "confidence_interval", kind |-> "ValueError",
               option_type |-> option_type, payoff |-> "", value |-> <<>>]
         ELSE [op |-> "confidence_interval", kind |-> "return",
               option_type |-> option_type,
               payoff |-> IF UsesCallPayoff(option_type) THEN "call" ELSE "put",
               value |-> ConfidenceIntervalOf(mc, simulated_prices.arr,
                                              option_type, confidence)]
    /\ UNCHANGED <<mc, simulated_prices, mcpc, results, runs>>
    /\ UNCHANGED notMC

(***************************************************************************)
(* implied_volatility_newton (data/compute_implied_vol.py)                 *)
(***************************************************************************)
\* Defaults of the signature, line 17
InitialSigmaDefault == 3 * (ONE \div 10)
MaxIterDefault == 100
TolDefault == ONE \div 1000000

\* The clamp of line 50
SigmaMin == ONE \div 100
SigmaMax == 5 * ONE

NoBS == [S |-> 0, K |-> 0, T |-> 0, r |-> 0, sigma |-> 0, d1 |-> 0, d2 |-> 0,
         built |-> FALSE, at |-> 0]

\* lines 28-31 comparing the option type without regard to case
PriceOfAnyCase(b, option_type) ==
    IF option_type \in {"call", "Call"} THEN BSCallPrice(b) ELSE BSPutPrice(b)

\* lines 28-31: the call price only for the exact string 'call'
PriceOf(b, option_type) ==
    IF option_type = "call" THEN BSCallPrice(b) ELSE BSPutPrice(b)

\* line 34: vega = S * norm.pdf(d1) * sqrt(T)
Vega(b) == Mul(Mul(b.S, NormPdf(b.d1)), Sqrt(b.T))

\* line 44: vega < 1e-10.  The threshold lies below the resolution of the
\* fixed-point vega, so the test is taken on logarithms:
\*   ln(S sqrt(T)) - ln sqrt(2 pi) - d1^2 / 2 < -10 ln 10, each side over 8.
VegaEpsDigits == 10
VegaBelowEps(b) ==
    LET scale == Mul(b.S, Sqrt(b.T))
        q     == DivInt(b.d1, 4)
    IN  IF IsNaN(b.d1) \/ IsNaN(scale) THEN FALSE
        ELSE IF scale <= 0 THEN TRUE
        ELSE IF Abs(b.d1) >= SatFix THEN TRUE
        ELSE Mul(q, q) > VegaEpsDigits * DivInt(Ln(10 * ONE), 8)
                           + DivInt(Ln(InvSqrt2Pi), 8)
                           + DivInt(Ln(scale), 8)

\* line 40 without abs(): diff < tol
ConvergedSigned(d, tol) == Lt(d, tol)

\* line 40: abs(diff) < tol
Converged(d, tol) == Lt(FAbs(d), tol)

\* Python's min(a, b) and max(a, b): a unless b compares below (above) it,
\* so a NaN second argument is dropped and a NaN first argument is kept
PyMin(a, b) == IF Lt(b, a) THEN b ELSE a
PyMax(a, b) == IF Gt(b, a) THEN b ELSE a

\* line 50 without the lower bound: min(sigma, 5.0)
ClampUpperOnly(sg) == PyMin(sg, SigmaMax)

\* line 50: sigma = max(0.01, min(sigma, 5.0))
Clamp(sg) == PyMax(SigmaMin, PyMin(sg, SigmaMax))

\* line 47 with the sign of the step reversed: sigma + diff / vega
NewtonUpdateWrongSign(sg, d, vg) == Add(sg, Div(d, vg))

\* line 47: sigma - diff / vega
NewtonUpdate(sg, d, vg) == Sub(sg, Div(d, vg))

\* line 22: the call is entered
EnterSolver(a) ==
    /\ args' = a
    /\ sigma' = a.initial_sigma
    /\ iter' = 0
    /\ bs' = NoBS
    /\ price' = 0
    /\ vega' = 0
    /\ diff' = 0
    /\ ret' = 0
    /\ spc' = "loop"

\* lines 24-37: the first half of an iteration: the pricer is constructed at
\* the current sigma, and price, vega and diff are computed from it
SolverPrice ==
    /\ spc = "loop"
    /\ iter < args.max_iter
    /\ IF D1Raises(args.K)
       THEN /\ spc' = "raised"
            /\ UNCHANGED <<bs, price, vega, diff>>
       ELSE /\ bs' = [BlackScholes(args.S, args.K, args.T, args.r, sigma)
                         EXCEPT !.built = TRUE, !.at = iter]
            /\ price' = PriceOf(bs', args.option_type)
            /\ vega' = Vega(bs')
            /\ diff' = Sub(price', args.market_price)
            /\ spc' = "priced"
    /\ UNCHANGED <<args, sigma, iter, ret, driverVars>>
    /\ UNCHANGED notSolver

\* lines 39-50 with the vega test of line 44 placed before the convergence
\* test of line 40
SolverStepVegaFirst ==
    /\ spc = "priced"
    /\ IF VegaBelowEps(bs)
       THEN /\ ret' = NaN
            /\ spc' = "returned"
            /\ UNCHANGED <<sigma, iter>>
       ELSE IF Converged(diff, args.tol)
       THEN /\ ret' = sigma
            /\ spc' = "returned"
            /\ UNCHANGED <<sigma, iter>>
       ELSE /\ sigma' = Clamp(NewtonUpdate(sigma, diff, vega))
            /\ iter' = iter + 1
            /\ spc' = "loop"
            /\ UNCHANGED ret
    /\ UNCHANGED <<args, bs, price, vega, diff, driverVars>>
    /\ UNCHANGED notSolver

\* lines 39-50: the second half: the convergence test, the vega test, and
\* the clamped Newton update
SolverStep ==
    /\ spc = "priced"
    /\ IF Converged(diff, args.tol)
       THEN /\ ret' = sigma
            /\ spc' = "returned"
            /\ UNCHANGED <<sigma, iter>>
       ELSE IF VegaBelowEps(bs)
       THEN /\ ret' = NaN
            /\ spc' = "returned"
            /\ UNCHANGED <<sigma, iter>>
       ELSE /\ sigma' = Clamp(NewtonUpdate(sigma, diff, vega))
            /\ iter' = iter + 1
            /\ spc' = "loop"
            /\ UNCHANGED ret
    /\ UNCHANGED <<args, bs, price, vega, diff, driverVars>>
    /\ UNCHANGED notSolver

\* a solver that hands back the last iterate when the loop runs out
SolverExhaustedReturnsSigma ==
    /\ spc = "loop"
    /\ iter >= args.max_iter
    /\ ret' = sigma
    /\ spc' = "returned"
    /\ UNCHANGED <<args, sigma, iter, bs, price, vega, diff, driverVars>>
    /\ UNCHANGED notSolver

\* line 52: the loop ran max_iter times
SolverExhausted ==
    /\ spc = "loop"
    /\ iter >= args.max_iter
    /\ ret' = NaN
    /\ spc' = "returned"
    /\ UNCHANGED <<args, sigma, iter, bs, price, vega, diff, driverVars>>
    /\ UNCHANGED notSolver

(***************************************************************************)
(* compute_iv_for_dataset (data/compute_implied_vol.py)                    *)
(***************************************************************************)
\* the default of the parameter r, line 54
DatasetRate == 4 * (ONE \div 100)

\* lines 69-77: the call made for one row, the other arguments defaulted
RowArgs(row) ==
    [market_price |-> row.lastPrice, S |-> row.spot_price, K |-> row.strike,
     T |-> row.T, r |-> DatasetRate, option_type |-> row.type,
     initial_sigma |-> InitialSigmaDefault, max_iter |-> MaxIterDefault,
     tol |-> TolDefault, sigma0 |-> 0]

\* clean_options_data, line 15: df = df[df['T'] > 0]
PositiveMaturity(row) == row.T > 0

CleanOptionsData ==
    /\ dpc = "raw"
    /\ dataset' = SelectSeq(dataset, PositiveMaturity)
    /\ dpc' = "next"
    /\ UNCHANGED <<solverVars, idx, iv_list, failed, df_clean>>
    /\ UNCHANGED notSolver

DriverCall ==
    /\ dpc = "next"
    /\ idx <= Len(dataset)
    /\ EnterSolver(RowArgs(dataset[idx]))
    /\ dpc' = "in_call"
    /\ UNCHANGED <<dataset, idx, iv_list, failed, df_clean>>
    /\ UNCHANGED notSolver

\* lines 78-81: the value returned is appended; an exception is counted
DriverRecord ==
    /\ dpc = "in_call"
    /\ spc \in {"returned", "raised"}
    /\ IF spc = "returned"
       THEN /\ iv_list' = Append(iv_list, ret)
            /\ failed' = failed
       ELSE /\ iv_list' = Append(iv_list, NaN)
            /\ failed' = failed + 1
    /\ idx' = idx + 1
    /\ dpc' = "next"
    /\ spc' = "idle"
    /\ UNCHANGED <<args, sigma, iter, bs, price, vega, diff, ret, dataset, df_clean>>
    /\ UNCHANGED notSolver

RECURSIVE NotNa(_, _)
NotNa(ivs, i) ==
    IF i > Len(ivs) THEN <<>>
    ELSE (IF IsNaN(ivs[i]) THEN <<>> ELSE <<i>>) \o NotNa(ivs, i + 1)

\* lines 86-100: df_clean = df[df['computed_iv'].notna()]
DriverFinish ==
    /\ dpc = "next"
    /\ idx > Len(dataset)
    /\ df_clean' = NotNa(iv_list, 1)
    /\ dpc' = "done"
    /\ UNCHANGED <<solverVars, dataset, idx, iv_list, failed>>
    /\ UNCHANGED notSolver

\* a caller other than the driver makes one call
DirectCall ==
    /\ dpc = "direct"
    /\ spc = "idle"
    /\ EnterSolver(args)
    /\ UNCHANGED driverVars
    /\ UNCHANGED notSolver

(***************************************************************************)
(* Inputs of the solver                                                    *)
(***************************************************************************)
MaxRows == 2

Rate == 5 * (ONE \div 100)

\* an at-the-money one-year contract, and a deep in-the-money contract
\* three to four days from expiry
AtTheMoney == [S |-> ONE, K |-> ONE, T |-> ONE]
DeepInTheMoney == [S |-> 15 * (ONE \div 10), K |-> ONE, T |-> ONE \div 100]
Contracts == {AtTheMoney, DeepInTheMoney}

\* sigma0 = 0.05, 0.10, ..., 1.00
SigmaGrid == {k * (ONE \div 20) : k \in 1..20}

\* the market price is the analytic price at sigma0
RoundTripArgs ==
    {[market_price |-> PriceOf(BlackScholes(c.S, c.K, c.T, Rate, s0), t),
      S |-> c.S, K |-> c.K, T |-> c.T, r |-> Rate, option_type |-> t,
      initial_sigma |-> InitialSigmaDefault, max_iter |-> MaxIterDefault,
      tol |-> TolDefault, sigma0 |-> s0] :
        c \in Contracts, t \in {"call", "put"}, s0 \in SigmaGrid}

\* any market price, any initial guess, any iteration budget
ProbeArgs ==
    {[market_price |-> m, S |-> ONE, K |-> k, T |-> ONE, r |-> Rate,
      option_type |-> t, initial_sigma |-> g, max_iter |-> n,
      tol |-> TolDefault, sigma0 |-> 0] :
        m \in {ONE \div 10, 15 * (ONE \div 10)},
        k \in {ONE, 0},
        t \in {"call", "put", "Call", "straddle"},
        g \in {InitialSigmaDefault, 0, 0 - (ONE \div 5), 6 * ONE},
        n \in {0, 2, MaxIterDefault}}

Rows ==
    {[type |-> "call", lastPrice |-> ONE \div 10, spot_price |-> ONE,
      strike |-> ONE, T |-> ONE],
     [type |-> "put", lastPrice |-> 15 * (ONE \div 10), spot_price |-> ONE,
      strike |-> ONE, T |-> ONE],
     [type |-> "call", lastPrice |-> 6 * (ONE \div 10),
      spot_price |-> 15 * (ONE \div 10), strike |-> ONE, T |-> ONE \div 100],
     [type |-> "call", lastPrice |-> ONE \div 10, spot_price |-> ONE,
      strike |-> 0, T |-> ONE],
     [type |-> "call", lastPrice |-> ONE \div 2,
      spot_price |-> 15 * (ONE \div 10), strike |-> ONE, T |-> 0]}

RECURSIVE SeqsUpTo(_, _)
SeqsUpTo(S, n) ==
    IF n = 0 THEN {<<>>}
    ELSE LET shorter == SeqsUpTo(S, n - 1)
         IN  shorter \cup {Append(q, e) : q \in shorter, e \in S}

NoArgs == [market_price |-> 0, S |-> ONE, K |-> ONE, T |-> ONE, r |-> Rate,
           option_type |-> "call", initial_sigma |-> InitialSigmaDefault,
           max_iter |-> 0, tol |-> TolDefault, sigma0 |-> 0]

SolverIdle ==
    /\ spc = "idle"
    /\ sigma = 0
    /\ iter = 0
    /\ bs = NoBS
    /\ price = 0
    /\ vega = 0
    /\ diff = 0
    /\ ret = 0

DriverIdle ==
    /\ idx = 1
    /\ iv_list = <<>>
    /\ failed = 0
    /\ df_clean = <<>>

SolverInit ==
    /\ SolverIdle
    /\ DriverIdle
    /\ \/ /\ dpc = "direct"
          /\ dataset = <<>>
          /\ args \in RoundTripArgs \cup ProbeArgs
       \/ /\ dpc \in {"raw", "next"}
          /\ dataset \in SeqsUpTo(Rows, MaxRows) \ {<<>>}
          /\ args = NoArgs

\* the machines a specification leaves alone
MCOff ==
    /\ mc = [S |-> ONE, K |-> ONE, T |-> ONE, r |-> Rate, sigma |-> ONE \div 5,
             n_simulations |-> 0, n_jobs |-> 1]
    /\ simulated_prices = None
    /\ mcpc = "off"
    /\ results = <<>>
    /\ runs = 0
    /\ mcout = NoOutcome

NoQuote == [call |-> 0, put |-> 0, bump |-> 0]
NoParity == [left_side |-> 0, right_side |-> 0, difference |-> 0,
             valid |-> FALSE]

ParityOff ==
    /\ pp = [S |-> ONE, K |-> ONE, T |-> ONE, r |-> Rate, sigma |-> ONE \div 5]
    /\ ppc = "off"
    /\ quote = NoQuote
    /\ parity = NoParity

SolverOff ==
    /\ SolverIdle
    /\ DriverIdle
    /\ args = NoArgs
    /\ dataset = <<>>
    /\ dpc = "off"

(***************************************************************************)
(* validate_put_call_parity and the pricer it checks (utils/validation.py) *)
(***************************************************************************)
\* line 27: the tolerance of $0.01
ParityTolerance == ONE \div 100

\* validate_put_call_parity without abs() on line 21
ValidateSignedDifference(S, K, T, r, call_price, put_price) ==
    LET parity_lhs == Sub(call_price, put_price)
        parity_rhs == Sub(S, Mul(K, Exp(Mul(Neg(r), T))))
        difference == Sub(parity_lhs, parity_rhs)
    IN  [left_side |-> parity_lhs, right_side |-> parity_rhs,
         difference |-> difference,
         valid |-> Lt(difference, ParityTolerance)]

\* validate_put_call_parity, lines 19-28
ValidatePutCallParity(S, K, T, r, call_price, put_price) ==
    LET parity_lhs == Sub(call_price, put_price)
        parity_rhs == Sub(S, Mul(K, Exp(Mul(Neg(r), T))))
        difference == FAbs(Sub(parity_lhs, parity_rhs))
    IN  [left_side |-> parity_lhs, right_side |-> parity_rhs,
         difference |-> difference,
         valid |-> Lt(difference, ParityTolerance)]

\* valid parameters: S, K, T, sigma > 0, r of any sign
ParityParams ==
    [S : {ONE \div 2, ONE, 15 * (ONE \div 10)},
     K : {ONE \div 2, ONE, 15 * (ONE \div 10)},
     T : {ONE \div 100, ONE \div 4, ONE, 2 * ONE},
     r : {0 - (ONE \div 50), 0, ONE \div 20, ONE \div 10},
     sigma : {ONE \div 100, ONE \div 20, ONE \div 5, ONE, 3 * ONE}]

\* what a caller adds to the call price before the check: nothing (the
\* pricer's own call and put, as in test_known_values, lines 89-92), or a
\* mispricing
Bumps == {0, ONE \div 200, ONE \div 100, 0 - (ONE \div 100), ONE \div 2,
          0 - (ONE \div 2)}

ParityInit ==
    /\ pp \in ParityParams
    /\ ppc = "start"
    /\ quote = NoQuote
    /\ parity = NoParity

\* test_known_values, lines 89-91: call and put of one BlackScholes object
PriceQuote(bump) ==
    /\ ppc = "start"
    /\ LET b == BlackScholes(pp.S, pp.K, pp.T, pp.r, pp.sigma)
       IN  quote' = [call |-> Add(BSCallPrice(b), bump), put |-> BSPutPrice(b),
                     bump |-> bump]
    /\ ppc' = "priced"
    /\ UNCHANGED <<pp, parity>>
    /\ UNCHANGED notParity

\* test_known_values, line 92
Validate ==
    /\ ppc = "priced"
    /\ parity' = ValidatePutCallParity(pp.S, pp.K, pp.T, pp.r,
                                       quote.call, quote.put)
    /\ ppc' = "validated"
    /\ UNCHANGED <<pp, quote>>
    /\ UNCHANGED notParity

(***************************************************************************)
(* BinomialTree and its convergence test (models/binomial_tree.py)         *)
(***************************************************************************)
MaxSteps == 10

\* x ** j by repeated multiplication
RECURSIVE Pow(_, _)
Pow(x, j) == IF j = 0 THEN ONE ELSE Mul(x, Pow(x, j - 1))

\* BinomialTree.__init__, lines 24-35
BinomialTree(S, K, T, r, sg, n_steps) ==
    LET dt == DivInt(T, n_steps)
        u  == Exp(Mul(sg, Sqrt(dt)))
        d  == Div(ONE, u)
        p  == Div(Sub(Exp(Mul(r, dt)), d), Sub(u, d))
    IN  [S |-> S, K |-> K, T |-> T, r |-> r, sigma |-> sg,
         n_steps |-> n_steps, dt |-> dt, u |-> u, d |-> d, p |-> p]

\* lines 42-43: S * u**j * d**(n_steps - j) for j in range(n_steps + 1)
TerminalPrices(b) ==
    [j \in 1..(b.n_steps + 1) |->
        Mul(Mul(b.S, Pow(b.u, j - 1)), Pow(b.d, b.n_steps - (j - 1)))]

\* lines 46 and 67: the payoffs at maturity
TerminalPayoffs(b, option_type) ==
    LET S_T == TerminalPrices(b)
    IN  [j \in 1..Len(S_T) |->
            IF option_type = "call" THEN Max(S_T[j] - b.K, 0)
                                    ELSE Max(b.K - S_T[j], 0)]

\* line 49 without the discounting
TreeNoDiscount(b) == ONE

\* line 49
TreeDiscount(b) == Exp(Mul(Neg(b.r), b.dt))

\* line 51 with the two weights exchanged
InductionRoundSwapped(b, W) ==
    [i \in 1..(Len(W) - 1) |->
        Mul(TreeDiscount(b),
            Add(Mul(b.p, W[i]), Mul(Sub(ONE, b.p), W[i + 1])))]

\* line 51: discount * (p * V[1:] + (1 - p) * V[:-1])
InductionRound(b, W) ==
    [i \in 1..(Len(W) - 1) |->
        Mul(TreeDiscount(b),
            Add(Mul(b.p, W[i + 1]), Mul(Sub(ONE, b.p), W[i])))]

\* the contract of the convergence test (line 117, prices in units of 100)
\* and contracts whose rate and volatility put p outside (0, 1)
TreeContracts ==
    {[S |-> ONE, K |-> ONE, T |-> ONE, r |-> Rate, sigma |-> ONE \div 5],
     [S |-> ONE, K |-> ONE, T |-> ONE, r |-> ONE \div 10,
      sigma |-> ONE \div 20],
     [S |-> ONE, K |-> ONE, T |-> ONE, r |-> 0 - (ONE \div 10),
      sigma |-> ONE \div 20],
     [S |-> 3 * (ONE \div 2), K |-> ONE, T |-> ONE \div 4, r |-> 0,
      sigma |-> ONE \div 2]}

\* line 128: the step counts of the test, in ascending order
StepCounts == [n \in 1..MaxSteps |-> n]

NoTree == [S |-> 0, K |-> 0, T |-> 0, r |-> 0, sigma |-> 0, n_steps |-> 0,
           dt |-> 0, u |-> 0, d |-> 0, p |-> 0]

TreeInit ==
    /\ \E c \in TreeContracts :
           bt = [NoTree EXCEPT !.S = c.S, !.K = c.K, !.T = c.T, !.r = c.r,
                               !.sigma = c.sigma]
    /\ btpc = "next"
    /\ btop = ""
    /\ V = <<>>
    /\ rounds = 0
    /\ btret = 0
    /\ sweep = 0
    /\ errors = <<>>

\* line 135: bt = BinomialTree(S, K, T, r, sigma, n_steps=n_steps)
TreeConstruct ==
    /\ btpc = "next"
    /\ sweep < Len(StepCounts)
    /\ bt' = BinomialTree(bt.S, bt.K, bt.T, bt.r, bt.sigma,
                          StepCounts[sweep + 1])
    /\ btpc' = "idle"
    /\ UNCHANGED <<btop, V, rounds, btret, sweep, errors>>
    /\ UNCHANGED notTree

\* call_price(), lines 42-49: the loop is about to start
TreeCallPrice ==
    /\ btpc = "idle"
    /\ btop' = "call"
    /\ V' = TerminalPayoffs(bt, "call")
    /\ rounds' = 0
    /\ btpc' = "induction"
    /\ UNCHANGED <<bt, btret, sweep, errors>>
    /\ UNCHANGED notTree

\* put_price(), lines 63-70
TreePutPrice ==
    /\ btpc = "idle"
    /\ btop' = "put"
    /\ V' = TerminalPayoffs(bt, "put")
    /\ rounds' = 0
    /\ btpc' = "induction"
    /\ UNCHANGED <<bt, btret, sweep, errors>>
    /\ UNCHANGED notTree

\* one pass of the loop of lines 50-51 (71-72)
TreeRound ==
    /\ btpc = "induction"
    /\ rounds < bt.n_steps
    /\ V' = InductionRound(bt, V)
    /\ rounds' = rounds + 1
    /\ UNCHANGED <<bt, btpc, btop, btret, sweep, errors>>
    /\ UNCHANGED notTree

\* the loop is over: return V[0] (lines 56 and 77)
TreeReturn ==
    /\ btpc = "induction"
    /\ rounds >= bt.n_steps
    /\ btret' = V[1]
    /\ btpc' = IF btop = "call" THEN "returned" ELSE "idle"
    /\ UNCHANGED <<bt, btop, V, rounds, sweep, errors>>
    /\ UNCHANGED notTree

\* lines 121-122 and 141: error = abs(bt_call - bs_call)
SweepRecord ==
    /\ btpc = "returned"
    /\ LET bs_call == BSCallPrice(BlackScholes(bt.S, bt.K, bt.T, bt.r, bt.sigma))
       IN  errors' = Append(errors, [n_steps |-> bt.n_steps,
                                     bt_call |-> btret,
                                     bs_call |-> bs_call,
                                     error   |-> FAbs(Sub(btret, bs_call))])
    /\ sweep' = sweep + 1
    /\ btpc' = IF sweep + 1 < Len(StepCounts) THEN "next" ELSE "done"
    /\ UNCHANGED <<bt, btop, V, rounds, btret>>
    /\ UNCHANGED notTree

TreeOff ==
    /\ bt = NoTree
    /\ btpc = "off"
    /\ btop = ""
    /\ V = <<>>
    /\ rounds = 0
    /\ btret = 0
    /\ sweep = 0
    /\ errors = <<>>

(***************************************************************************)
(* test_known_values and the comparison of __main__ (utils/validation.py)  *)
(* Prices are in units of 100: S = 42 is 42 * (ONE \div 100), and the      *)
(* thresholds 0.1 and 1.0 of Tests 1 and 3 scale with them.                *)
(***************************************************************************)
Hundredth == ONE \div 100

\* line 79 and line 81: the contract of Test 1 and the textbook value 4.76
HullContract ==
    [S |-> 42 * Hundredth, K |-> 40 * Hundredth, T |-> ONE \div 2,
     r |-> ONE \div 10, sigma |-> ONE \div 5]
ExpectedCall1 == 476 * (Hundredth \div 100)

\* line 85: abs(call1 - expected_call1) < 0.1
KnownValuePasses(call1) ==
    Lt(FAbs(Sub(call1, ExpectedCall1)), Hundredth \div 10)

\* line 89
ParityContract ==
    [S |-> ONE, K |-> ONE, T |-> ONE, r |-> Rate, sigma |-> ONE \div 5]

\* line 100 and line 102
DeepContract ==
    [S |-> 150 * Hundredth, K |-> ONE, T |-> ONE \div 100, r |-> Rate,
     sigma |-> ONE \div 5]
Intrinsic == DeepContract.S - DeepContract.K

\* line 106: call3 - intrinsic < 1.0
DeepInTheMoneyPasses(call3) == Lt(Sub(call3, Intrinsic), Hundredth)

\* lines 117-121
TestCases ==
    <<[S |-> ONE, K |-> ONE, T |-> ONE, r |-> Rate, sigma |-> ONE \div 5],
      [S |-> ONE, K |-> 110 * Hundredth, T |-> ONE, r |-> Rate,
       sigma |-> ONE \div 4],
      [S |-> ONE, K |-> 90 * Hundredth, T |-> ONE \div 2,
       r |-> 3 * Hundredth, sigma |-> 3 * (ONE \div 10)]>>

\* the pricer under test: the analytic call price, off by `fault` when the
\* pricer is wrong
CallUnderTest(c, fault) ==
    Add(BSCallPrice(BlackScholes(c.S, c.K, c.T, c.r, c.sigma)), fault)
PutUnderTest(c) == BSPutPrice(BlackScholes(c.S, c.K, c.T, c.r, c.sigma))

Faults == {0, Hundredth \div 2, 0 - (Hundredth \div 2), 2 * Hundredth,
           0 - (2 * Hundredth), 0 - (ONE \div 4)}

SuiteInit ==
    /\ tpc = "test1"
    /\ report = <<>>
    /\ table = <<>>

\* Test 1 with a failed check raising instead of printing
KnownValueTestFatal(fault) ==
    /\ tpc = "test1"
    /\ \E call1 \in {CallUnderTest(HullContract, fault)} :
           IF KnownValuePasses(call1)
           THEN /\ report' = Append(report, [test |-> "known value",
                                             value |-> call1, pass |-> TRUE])
                /\ tpc' = "test2"
           ELSE /\ report' = report
                /\ tpc' = "raised"
    /\ UNCHANGED table
    /\ UNCHANGED notSuite

\* lines 76-85
KnownValueTest(fault) ==
    /\ tpc = "test1"
    /\ \E call1 \in {CallUnderTest(HullContract, fault)} :
           report' = Append(report, [test |-> "known value", value |-> call1,
                                     pass |-> KnownValuePasses(call1)])
    /\ tpc' = "test2"
    /\ UNCHANGED table
    /\ UNCHANGED notSuite

\* lines 87-96
ParityTest(fault) ==
    /\ tpc = "test2"
    /\ \E call2 \in {CallUnderTest(ParityContract, fault)},
          put2  \in {PutUnderTest(ParityContract)} :
         \E res \in {ValidatePutCallParity(ParityContract.S, ParityContract.K,
                          ParityContract.T, ParityContract.r, call2, put2)} :
           report' = Append(report, [test |-> "parity",
                                     value |-> res.difference,
                                     pass |-> res.valid])
    /\ tpc' = "test3"
    /\ UNCHANGED table
    /\ UNCHANGED notSuite

\* lines 98-106
DeepInTheMoneyTest(fault) ==
    /\ tpc = "test3"
    /\ \E call3 \in {CallUnderTest(DeepContract, fault)} :
           report' = Append(report, [test |-> "deep in the money",
                                     value |-> call3,
                                     pass |-> DeepInTheMoneyPasses(call3)])
    /\ tpc' = "compare"
    /\ UNCHANGED table
    /\ UNCHANGED notSuite

\* lines 123-125: one scenario of the comparison.  The row holds the analytic
\* benchmark of compare_models (lines 40-42).
CompareModels ==
    /\ tpc = "compare"
    /\ \E c \in {TestCases[Len(table) + 1]} :
         \E bs_call \in {CallUnderTest(c, 0)}, bs_put \in {PutUnderTest(c)} :
           table' = Append(table, [S |-> c.S, K |-> c.K,
                                   bs_call |-> bs_call, bs_put |-> bs_put])
    /\ tpc' = IF Len(table) + 1 < Len(TestCases) THEN "compare" ELSE "done"
    /\ UNCHANGED report
    /\ UNCHANGED notSuite

SuiteOff ==
    /\ tpc = "off"
    /\ report = <<>>
    /\ table = <<>>

(***************************************************************************)
(* A BlackScholes instance and its queries (models/black_scholes.py)       *)
(***************************************************************************)
DivBy(a, n) == IF IsNaN(a) THEN NaN ELSE DivInt(a, n)

\* greeks(), lines 70-95
Greeks(b) ==
    LET pdf        == NormPdf(b.d1)
        sqrtT      == Sqrt(b.T)
        delta_call == NormCdf(b.d1)
        delta_put  == Sub(delta_call, ONE)
        gamma      == Div(pdf, Mul(Mul(b.S, b.sigma), sqrtT))
        vega_pct   == DivBy(Mul(Mul(b.S, pdf), sqrtT), 100)
        decay      == Neg(Div(Mul(Mul(b.S, pdf), b.sigma), Add(sqrtT, sqrtT)))
        carry      == Mul(b.r, DiscountedStrike(b))
        theta_call == DivBy(Sub(decay, Mul(carry, NormCdf(b.d2))), 365)
        theta_put  == DivBy(Add(decay, Mul(carry, NormCdf(Neg(b.d2)))), 365)
        rho_call   == DivBy(Mul(Mul(b.T, DiscountedStrike(b)),
                                NormCdf(b.d2)), 100)
        rho_put    == DivBy(Neg(Mul(Mul(b.T, DiscountedStrike(b)),
                                    NormCdf(Neg(b.d2)))), 100)
    IN  [delta |-> <<delta_call, delta_put>>,
         gamma |-> <<gamma, gamma>>,
         vega  |-> <<vega_pct, vega_pct>>,
         theta |-> <<theta_call, theta_put>>,
         rho   |-> <<rho_call, rho_put>>]

\* the contracts validation.py constructs a BlackScholes object for
InstanceContracts ==
    {HullContract, ParityContract, DeepContract}
        \cup {TestCases[i] : i \in 1..Len(TestCases)}

NoQuery == [op |-> "none", value |-> <<>>]

\* BlackScholes.__init__
BSInit ==
    /\ \E c \in InstanceContracts :
           bso = BlackScholes(c.S, c.K, c.T, c.r, c.sigma)
    /\ bsq = NoQuery

\* call_price()
BSQueryCall ==
    /\ bso.built
    /\ bsq' = [op |-> "call_price", value |-> <<BSCallPrice(bso)>>]
    /\ UNCHANGED bso
    /\ UNCHANGED notBS

\* put_price()
BSQueryPut ==
    /\ bso.built
    /\ bsq' = [op |-> "put_price", value |-> <<BSPutPrice(bso)>>]
    /\ UNCHANGED bso
    /\ UNCHANGED notBS

\* greeks()
BSQueryGreeks ==
    /\ bso.built
    /\ bsq' = [op |-> "greeks", value |-> <<Greeks(bso)>>]
    /\ UNCHANGED bso
    /\ UNCHANGED notBS

BSOff ==
    /\ bso = NoBS
    /\ bsq = NoQuery

(***************************************************************************)
(* Specifications                                                          *)
(***************************************************************************)
Init == MCInit /\ SolverOff /\ ParityOff /\ TreeOff /\ SuiteOff /\ BSOff
Next ==
    \/ SimulateStart
    \/ \E i \in 1..Len(results) : WorkerFinish(i)
    \/ SimulateCombine
    \/ SimulateRemainder
    \/ CallPrice
    \/ PutPrice
    \/ \E t \in OptionTypes, c \in Confidences : ConfidenceInterval(t, c)
Spec == Init /\ [][Next]_vars

InitSolver ==
    SolverInit /\ MCOff /\ ParityOff /\ TreeOff /\ SuiteOff /\ BSOff
NextSolver ==
    \/ DirectCall
    \/ CleanOptionsData
    \/ SolverPrice
    \/ SolverStep
    \/ SolverExhausted
    \/ DriverCall
    \/ DriverRecord
    \/ DriverFinish
SpecSolver == InitSolver /\ [][NextSolver]_vars

InitParity ==
    ParityInit /\ MCOff /\ SolverOff /\ TreeOff /\ SuiteOff /\ BSOff
NextParity ==
    \/ \E bump \in Bumps : PriceQuote(bump)
    \/ Validate
SpecParity == InitParity /\ [][NextParity]_vars

InitTree ==
    TreeInit /\ MCOff /\ SolverOff /\ ParityOff /\ SuiteOff /\ BSOff
NextTree ==
    \/ TreeConstruct
    \/ TreeCallPrice
    \/ TreePutPrice
    \/ TreeRound
    \/ TreeReturn
    \/ SweepRecord
SpecTree == InitTree /\ [][NextTree]_vars

InitSuite ==
    SuiteInit /\ MCOff /\ SolverOff /\ ParityOff /\ TreeOff /\ BSOff
NextSuite ==
    \/ \E fault \in Faults : KnownValueTest(fault)
    \/ \E fault \in Faults : ParityTest(fault)
    \/ \E fault \in Faults : DeepInTheMoneyTest(fault)
    \/ CompareModels
SpecSuite == InitSuite /\ [][NextSuite]_vars

\* the three pricers and the solver, each run from its own entry point
InitPricers ==
    \/ Init
    \/ InitSolver
    \/ InitTree
    \/ BSInit /\ MCOff /\ SolverOff /\ ParityOff /\ TreeOff /\ SuiteOff
NextPricers ==
    \/ SimulateStart
    \/ \E i \in 1..Len(results) : WorkerFinish(i)
    \/ SimulateCombine
    \/ SimulateRemainder
    \/ CallPrice
    \/ PutPrice
    \/ \E t \in OptionTypes, c \in Confidences : ConfidenceInterval(t, c)
    \/ DirectCall
    \/ CleanOptionsData
    \/ SolverPrice
    \/ SolverStep
    \/ SolverExhausted
    \/ DriverCall
    \/ DriverRecord
    \/ DriverFinish
    \/ TreeConstruct
    \/ TreeCallPrice
    \/ TreePutPrice
    \/ TreeRound
    \/ TreeReturn
    \/ SweepRecord
    \/ BSQueryCall
    \/ BSQueryPut
    \/ BSQueryGreeks
SpecPricers == InitPricers /\ [][NextPricers]_vars

(***************************************************************************)
(* Properties of the MonteCarlo instance (specification Spec)              *)
(***************************************************************************)
AnyQuery ==
    \/ CallPrice
    \/ PutPrice
    \/ \E t \in OptionTypes, c \in Confidences : ConfidenceInterval(t, c)

\* C1: while no simulate() has completed on the instance, every call_price(),
\* put_price() and confidence_interval() ends in the ValueError, returns no
\* number, and leaves the cache absent and the parameters as they were.
C1_QueryBeforeSimulateFails ==
    [][(runs = 0 /\ AnyQuery)
          => /\ mcout'.kind = "ValueError"
             /\ mcout'.value = <<>>
             /\ simulated_prices' = None
             /\ mc' = mc]_vars

C1_Witness ==
    /\ runs = 0
    /\ mcout.op = "confidence_interval"
    /\ mcout.kind = "ValueError"
    /\ ~simulated_prices.set

\* C2: whenever simulate() has returned, the cached sample holds exactly
\* n_simulations terminal prices, for every n_simulations >= 0 and every
\* number of batches >= 1.
C2_SampleLength ==
    (mcpc = "idle" /\ runs >= 1)
        => /\ simulated_prices.set
           /\ Len(simulated_prices.arr) = mc.n_simulations

\* fewer simulations than batches: every batch is empty and the whole sample
\* comes from the remainder
C2_Witness ==
    /\ mcpc = "idle"
    /\ runs >= 1
    /\ 0 < mc.n_simulations
    /\ mc.n_simulations < NCores(mc)
    /\ Len(simulated_prices.arr) = mc.n_simulations

\* C3: in every state, those inside simulate() included, the cache is absent
\* or holds a complete sample of n_simulations prices.
C3_NeverPartial ==
    simulated_prices.set => Len(simulated_prices.arr) = mc.n_simulations

\* C4: confidence_interval fails for an option_type that is neither call nor
\* put: it returns no interval for an unrecognized side.
C4_UnrecognizedSideFails ==
    (mcout.op = "confidence_interval"
        /\ Lower(mcout.option_type) \notin {"call", "put"})
        => mcout.kind = "ValueError"

(***************************************************************************)
(* Properties of the solver (specification SpecSolver)                     *)
(***************************************************************************)
ModelPriceAt(sg) ==
    PriceOf(BlackScholes(args.S, args.K, args.T, args.r, sg), args.option_type)

InClampRange(sg) == ~IsNaN(sg) /\ SigmaMin <= sg /\ sg <= SigmaMax

\* C5: a sigma returned as converged has a model price within tol of the
\* market price, and it is the sigma the pricer of the returning iteration
\* was constructed at: no update lies between the test and the return.
C5_ReturnedSigmaWithinTolerance ==
    (spc = "returned" /\ ~IsNaN(ret))
        => /\ Lt(FAbs(Sub(ModelPriceAt(ret), args.market_price)), args.tol)
           /\ bs.built
           /\ bs.sigma = ret
           /\ bs.at = iter
           /\ sigma = ret

C5_Witness ==
    /\ spc = "returned"
    /\ ~IsNaN(ret)
    /\ iter >= 2
    /\ ret # args.initial_sigma

RECURSIVE CountNaN(_)
CountNaN(ivs) ==
    IF ivs = <<>> THEN 0
    ELSE (IF IsNaN(Head(ivs)) THEN 1 ELSE 0) + CountNaN(Tail(ivs))

\* C6: a run that does not converge is not answered through the return value
\* of a converged sigma, and the driver counts every row without a converged
\* sigma as failed.
C6_FailureIsNotASentinel ==
    /\ spc = "returned" => ~IsNaN(ret)
    /\ failed = CountNaN(iv_list)

\* C7 as stated: at every iteration the pricer is constructed with
\* sigma > 0, for any initial guess.
C7_EveryConstructionPositive ==
    bs.built => bs.sigma > 0

\* C7 as amended: the first iteration constructs the pricer at the initial
\* guess as given; the pricer is constructed with sigma in [0.01, 5.0] from the
\* second iteration on, a sigma returned after an update lies in that range,
\* and with an initial guess > 0 every construction has sigma > 0.
C7_ClampedAfterFirstUpdate ==
    /\ (bs.built /\ bs.at = 0) => bs.sigma = args.initial_sigma
    /\ (bs.built /\ bs.at >= 1) => InClampRange(bs.sigma)
    /\ (spc \in {"loop", "priced"} /\ iter >= 1) => InClampRange(sigma)
    /\ (spc = "returned" /\ ~IsNaN(ret) /\ iter >= 1) => InClampRange(ret)
    /\ (bs.built /\ args.initial_sigma > 0) => bs.sigma > 0

\* the update left the range and the clamp brought it back to 0.01
C7_Witness ==
    /\ bs.built
    /\ bs.at >= 1
    /\ bs.sigma = SigmaMin
    /\ args.initial_sigma > SigmaMax

RoundTripTolerance == ONE \div 10000

\* C8 as stated: for every sigma0 of the grid and every contract, the solver
\* fed the analytic price at sigma0 returns a sigma within 1e-4 of sigma0.
C8_RoundTripAnyContract ==
    (spc = "returned" /\ args.sigma0 > 0)
        => /\ ~IsNaN(ret)
           /\ Abs(ret - args.sigma0) < RoundTripTolerance

\* C8 as amended: the round trip recovers sigma0 within 1e-4 for the
\* at-the-money contract (S = K = 1, T = 1, r = 0.05); for every contract a
\* returned sigma reprices within tol of the synthetic market price.
C8_RoundTripAtTheMoney ==
    (spc = "returned" /\ args.sigma0 > 0)
        => /\ ~IsNaN(ret)
              => Lt(FAbs(Sub(ModelPriceAt(ret), args.market_price)), args.tol)
           /\ (args.S = AtTheMoney.S /\ args.K = AtTheMoney.K
                  /\ args.T = AtTheMoney.T)
              => /\ ~IsNaN(ret)
                 /\ Abs(ret - args.sigma0) < RoundTripTolerance

C8_Witness ==
    /\ spc = "returned"
    /\ args.sigma0 = ONE
    /\ args.T = AtTheMoney.T
    /\ args.option_type = "put"
    /\ iter >= 2
    /\ ~IsNaN(ret)
    /\ Abs(ret - args.sigma0) < RoundTripTolerance

(***************************************************************************)
(* Properties of the parity check (specification SpecParity)               *)
(***************************************************************************)
ParityRhs == Sub(pp.S, Mul(pp.K, Exp(Mul(Neg(pp.r), pp.T))))

PriceTolerance == ONE \div 1000000

\* C9: the call and the put of one BlackScholes object satisfy
\* |call - put - (S - K e^(-rT))| < 1e-6.
C9_PutCallParity ==
    (ppc # "start" /\ quote.bump = 0)
        => Lt(FAbs(Sub(Sub(quote.call, quote.put), ParityRhs)), PriceTolerance)

\* both prices well away from zero, so that neither side of the identity is
\* trivially the other
C9_Witness ==
    /\ ppc = "priced"
    /\ quote.bump = 0
    /\ pp.sigma = ONE
    /\ pp.S # pp.K
    /\ quote.call > ONE \div 10
    /\ quote.put > ONE \div 10

\* C10: the dictionary holds left = call - put, right = S - K e^(-rT),
\* difference = |left - right| >= 0, and valid exactly when difference < 0.01;
\* a parity violation yields valid = FALSE, not an error.
C10_ParityVerdict ==
    ppc = "validated"
        => /\ parity.left_side = quote.call - quote.put
           /\ parity.right_side = ParityRhs
           /\ parity.difference >= 0
           /\ parity.difference \in {parity.left_side - parity.right_side,
                                     parity.right_side - parity.left_side}
           /\ parity.valid <=> (parity.difference < ParityTolerance)

\* a mispriced call whose left side is below the right side by more than
\* the tolerance
C10_Witness ==
    /\ ppc = "validated"
    /\ ~parity.valid
    /\ parity.left_side < parity.right_side
    /\ parity.difference > ParityTolerance

(***************************************************************************)
(* Batches of one simulate() call (specification Spec)                     *)
(***************************************************************************)
Remainder(m) == m.n_simulations - NCores(m) * BatchSize(m)

\* C11: the batches of one simulate() call are one per worker plus at most one
\* for the remainder, their sizes add up to n_simulations once the call has
\* returned, every price of a batch was drawn from that batch's seed, and no
\* two batches of the call share a seed.
C11_DistinctSeedPerBatch ==
    mcpc # "idle" \/ runs >= 1
        => /\ Len(results) \in {NCores(mc), NCores(mc) + 1}
           /\ \A i, j \in 1..Len(results) :
                  i # j => results[i].seed # results[j].seed
           /\ \A i \in 1..Len(results) :
                  \A k \in 1..Len(results[i].out) :
                      /\ results[i].out[k].seed = results[i].seed
                      /\ results[i].out[k].k = k
           /\ \A i \in 1..Len(results) :
                  results[i].done /\ i <= NCores(mc)
                      => Len(results[i].out) = BatchSize(mc)
           /\ Len(results) = NCores(mc) + 1
                  => Len(results[NCores(mc) + 1].out) = Remainder(mc)
           /\ mcpc = "idle"
                  => (Len(results) = NCores(mc) + 1 <=> Remainder(mc) > 0)

\* three batches: two workers and a remainder
C11_Witness ==
    /\ mcpc = "idle"
    /\ runs >= 1
    /\ NCores(mc) = 2
    /\ Len(results) = 3
    /\ Len(results[1].out) = 2
    /\ Len(results[3].out) = 1

\* the sample simulate() has to store: batch 0 first, the remainder last
ExpectedSample(m) ==
    Concatenate([i \in 1..NCores(m) |-> SimulateBatch(m, BatchSize(m), i - 1)])
        \o SimulateBatch(m, Remainder(m), NCores(m))

\* C12: simulate() has returned only if every batch is complete, and the
\* cached sample is then the batch outputs in batch order, batch 0 first and
\* the remainder batch last, whatever the order the workers finished in.
C12_BarrierAndBatchOrder ==
    /\ mcpc = "combined" \/ (mcpc = "idle" /\ runs >= 1)
           => /\ Len(results) >= NCores(mc)
              /\ \A i \in 1..Len(results) : results[i].done
    /\ mcpc = "idle" /\ runs >= 1
           => /\ simulated_prices.set
              /\ simulated_prices.arr = ExpectedSample(mc)
              /\ \A i, j \in 1..Len(simulated_prices.arr) :
                     i < j => simulated_prices.arr[i].seed
                                  <= simulated_prices.arr[j].seed

C12_Witness ==
    /\ mcpc = "idle"
    /\ runs >= 1
    /\ NCores(mc) = 3
    /\ mc.n_simulations = 5
    /\ simulated_prices.arr[1].seed = 0
    /\ simulated_prices.arr[5].seed = 3

(***************************************************************************)
(* Properties of the lattice pricer (specification SpecTree)               *)
(***************************************************************************)
\* a method of the current tree has returned btret
TreeMethodReturned ==
    \/ btpc \in {"returned", "done"}
    \/ btpc = "next" /\ sweep >= 1
    \/ btpc = "idle" /\ btop = "put"

\* C13: the induction starts from n_steps + 1 payoffs, every round turns the
\* vector of length m into one of length m - 1 whose element i is
\* discount * (p * V[i+1] + (1 - p) * V[i]), and a method returns after
\* exactly n_steps rounds the one value that is left, for call and for put.
C13_BackwardInduction ==
    /\ [](btpc = "induction"
            => /\ rounds <= bt.n_steps
               /\ Len(V) = bt.n_steps + 1 - rounds)
    /\ [](TreeMethodReturned
            => /\ rounds = bt.n_steps
               /\ Len(V) = 1
               /\ btret = V[1])
    /\ [][TreeRound
            => /\ Len(V') = Len(V) - 1
               /\ \A i \in 1..Len(V') :
                      V'[i] = Mul(Exp(Mul(Neg(bt.r), bt.dt)),
                                  Add(Mul(bt.p, V[i + 1]),
                                      Mul(Sub(ONE, bt.p), V[i])))]_vars

C13_Witness ==
    /\ btpc = "idle"
    /\ btop = "put"
    /\ bt.n_steps >= 3
    /\ rounds = bt.n_steps
    /\ Len(V) = 1
    /\ btret > 0

\* C14: a price is returned normally only from a tree whose risk-neutral
\* probability p lies in (0, 1); an out-of-range p is reported instead.
C14_OutOfRangePReported ==
    TreeMethodReturned => (Gt(bt.p, 0) /\ Lt(bt.p, ONE))

(***************************************************************************)
(* Expired contracts (specification SpecSolver)                            *)
(***************************************************************************)
\* C15: no pricer is constructed, and no implied volatility is returned, for
\* a contract whose time to maturity is zero or negative.
C15_ExpiredContractRejected ==
    /\ bs.built => bs.T > 0
    /\ (spc = "returned" /\ ~IsNaN(ret)) => args.T > 0

(***************************************************************************)
(* Properties of the validation suite (specification SpecSuite)            *)
(***************************************************************************)
TestOrder == <<"known value", "parity", "deep in the money">>

ChecksDone ==
    CASE tpc = "test1" -> 0
      [] tpc = "test2" -> 1
      [] tpc = "test3" -> 2
      [] OTHER         -> 3

\* C16: a failed check is a FAIL line of the report and never ends the run.
\* Whatever the verdicts, the suite is at one of its steps, none of which is
\* an abort; the report holds one pass/fail line per check already run, in
\* the order known value, parity, deep in the money; the comparison starts
\* after the three checks and has run for every scenario when the suite is
\* done.
C16_SuiteRunsToTheEnd ==
    /\ tpc \in {"test1", "test2", "test3", "compare", "done"}
    /\ Len(report) = ChecksDone
    /\ \A i \in 1..Len(report) :
           /\ report[i].test = TestOrder[i]
           /\ report[i].pass \in BOOLEAN
    /\ tpc \in {"test1", "test2", "test3"} => table = <<>>
    /\ tpc = "compare" => Len(table) < Len(TestCases)
    /\ tpc = "done" => Len(table) = Len(TestCases)

\* every check failed and the comparison still ran for all scenarios
C16_Witness ==
    /\ tpc = "done"
    /\ Len(report) = 3
    /\ \A i \in 1..3 : ~report[i].pass
    /\ Len(table) = Len(TestCases)

\* C20: the deep in-the-money check passes exactly when the call price is
\* within 1.00 of the intrinsic value in either direction; a price more than
\* 1.00 below the intrinsic value is a FAIL.
C20_DeepCheckTwoSided ==
    Len(report) >= 3
        => (report[3].pass
               <=> Lt(FAbs(Sub(report[3].value, Intrinsic)), Hundredth))

(***************************************************************************)
(* Convergence of the lattice price (specification SpecTree)               *)
(***************************************************************************)
\* the contract of the convergence test: S = K = 100, T = 1, r = 0.05,
\* sigma = 0.20
ConvergenceContract ==
    /\ bt.S = ONE
    /\ bt.K = ONE
    /\ bt.T = ONE
    /\ bt.r = Rate
    /\ bt.sigma = ONE \div 5

\* C17 as stated: the absolute call-price error of the lattice never grows
\* when n_steps grows.
C17_MonotoneConvergence ==
    ConvergenceContract
        => \A i \in 1..(Len(errors) - 1) :
               errors[i + 1].error <= errors[i].error

\* C17 as amended: the lattice price lies above the analytic price for odd
\* n_steps and below it for even n_steps, and the absolute error falls from
\* n_steps to n_steps + 2, so the error shrinks without being monotone.
C17_AlternatingConvergence ==
    ConvergenceContract
        => /\ \A i \in 1..Len(errors) :
                  /\ errors[i].n_steps = i
                  /\ i % 2 = 1 => errors[i].bt_call > errors[i].bs_call
                  /\ i % 2 = 0 => errors[i].bt_call < errors[i].bs_call
           /\ \A i \in 1..(Len(errors) - 2) :
                  errors[i + 2].error < errors[i].error
           /\ \A i \in 2..Len(errors) : errors[i].error < errors[1].error

\* the error has just risen from 9 steps to 10
C17_Witness ==
    /\ ConvergenceContract
    /\ Len(errors) >= 10
    /\ errors[10].error > errors[9].error
    /\ errors[10].error < errors[8].error

(***************************************************************************)
(* Frame of the queries (specification SpecPricers)                        *)
(***************************************************************************)
MCQuery ==
    \/ CallPrice
    \/ PutPrice
    \/ \E t \in OptionTypes, c \in Confidences : ConfidenceInterval(t, c)

SimulateStep ==
    \/ SimulateStart
    \/ \E i \in 1..Len(results) : WorkerFinish(i)
    \/ SimulateCombine
    \/ SimulateRemainder

SolverCalled == spc \in {"loop", "priced", "returned", "raised"}

\* C19: the solver terminates. The loop counter never passes max_iter; the
\* pricer is constructed only while the counter is below max_iter, at the
\* current counter value, and every pass that does not end the call moves
\* the counter up by exactly one, so there are at most max_iter
\* constructions and the call ends after at most 2 * max_iter + 1 steps;
\* and when the counter reaches max_iter (at once when max_iter = 0) the
\* value returned is the non-convergence value NaN, never a sigma.
C19_BoundedIterations ==
    /\ [](SolverCalled =>
            /\ iter >= 0 /\ iter <= args.max_iter
            /\ (spc = "priced" => iter < args.max_iter)
            /\ (bs.built => bs.at < args.max_iter /\ bs.at <= iter)
            /\ ((spc = "returned" /\ iter >= args.max_iter) => IsNaN(ret))
            /\ ((spc = "returned" /\ ~IsNaN(ret)) =>
                    /\ bs.built /\ bs.at = iter
                    /\ Converged(diff, args.tol)))
    /\ [][(spc = "loop" /\ spc' = "priced") =>
            /\ iter < args.max_iter
            /\ iter' = iter
            /\ bs'.built /\ bs'.at = iter]_vars
    /\ [][(spc = "priced" /\ spc' = "loop") => iter' = iter + 1]_vars
    /\ [][(spc = "priced" /\ spc' = "priced") => UNCHANGED <<bs, iter>>]_vars

\* max_iter = 100 iterations passed without convergence, 100 constructions
C19_Witness ==
    /\ spc = "returned"
    /\ args.max_iter = MaxIterDefault
    /\ iter = args.max_iter
    /\ bs.built /\ bs.at = args.max_iter - 1
    /\ ~Converged(diff, args.tol)
    /\ IsNaN(ret)

\* max_iter = 0: no construction at all, and the non-convergence value
C19_WitnessZero ==
    /\ spc = "returned"
    /\ args.max_iter = 0
    /\ ~bs.built
    /\ IsNaN(ret)

\* C21: when compute_iv_for_dataset has finished, the computed column has one
\* entry per input record, every input record is a row of the returned
\* frame, and the failure count is the number of records whose solver run
\* did not end with a converged sigma.
C21_OneEntryPerRecord ==
    dpc = "done" =>
        /\ Len(iv_list) = Len(dataset)
        /\ Len(df_clean) = Len(dataset)
        /\ failed = CountNaN(iv_list)

\* C22: simulate() replaces the cache.  Whenever a call has completed the
\* cache has n_simulations entries; the first call leaves the sample fixed
\* by the parameters and the batch seeds; the parameters never change; in a
\* later call line 76 overwrites the previous sample with its own leading
\* worker batches, and the call ends with that same sample again.
C22_RerunReplacesCache ==
    /\ []((mcpc = "idle" /\ runs >= 1) =>
            /\ simulated_prices.set
            /\ Len(simulated_prices.arr) = mc.n_simulations)
    /\ []((mcpc = "idle" /\ runs = 1) =>
            simulated_prices.arr = ExpectedSample(mc))
    /\ [][mc' = mc]_vars
    /\ [][(mcpc = "idle" /\ mcpc' = "parallel" /\ runs >= 1) =>
            UNCHANGED simulated_prices]_vars
    /\ [][(mcpc = "parallel" /\ mcpc' = "parallel") =>
            UNCHANGED simulated_prices]_vars
    /\ [][(mcpc = "parallel" /\ mcpc' = "combined" /\ runs >= 1) =>
            simulated_prices'.arr =
                SubSeq(simulated_prices.arr, 1, NCores(mc) * BatchSize(mc))]_vars
    /\ [][(mcpc = "combined" /\ mcpc' = "idle" /\ runs >= 1) =>
            /\ runs' = runs + 1
            /\ simulated_prices'.arr = ExpectedSample(mc)]_vars

\* a second call has completed on an instance with a remainder batch
C22_Witness ==
    /\ mcpc = "idle"
    /\ runs >= 2
    /\ NCores(mc) = 2
    /\ mc.n_simulations = 5
    /\ Len(simulated_prices.arr) = 5
    /\ simulated_prices.arr = ExpectedSample(mc)

\* C23: the convergence test comes first.  An iteration whose price is
\* within tolerance returns its sigma, also when its vega is below 1e-10;
\* an iteration ends in the vega failure only when its price is not within
\* tolerance and its vega is below 1e-10; and the Newton update is made
\* only in an iteration that passed both tests.
C23_ConvergenceTestFirst ==
    /\ [][(spc = "priced" /\ Converged(diff, args.tol)) =>
            /\ spc' = "returned"
            /\ ret' = sigma
            /\ ~IsNaN(ret')]_vars
    /\ [][(spc = "priced" /\ spc' = "returned" /\ IsNaN(ret')) =>
            /\ ~Converged(diff, args.tol)
            /\ VegaBelowEps(bs)]_vars
    /\ [][(spc = "priced" /\ spc' = "loop") =>
            /\ ~Converged(diff, args.tol)
            /\ ~VegaBelowEps(bs)
            /\ sigma' = Clamp(NewtonUpdate(sigma, diff, vega))]_vars
    /\ [][(spc = "priced" /\ ~Converged(diff, args.tol) /\ VegaBelowEps(bs)) =>
            /\ spc' = "returned"
            /\ IsNaN(ret')]_vars

\* a sigma was returned from an iteration whose vega is below 1e-10
C23_Witness ==
    /\ spc = "returned"
    /\ bs.built /\ bs.at = iter
    /\ VegaBelowEps(bs)
    /\ Converged(diff, args.tol)
    /\ ret = sigma
    /\ ~IsNaN(ret)

\* the vega failure, in an iteration whose price is out of tolerance
C23_WitnessVegaFailure ==
    /\ spc = "returned"
    /\ bs.built /\ bs.at = iter
    /\ VegaBelowEps(bs)
    /\ ~Converged(diff, args.tol)
    /\ IsNaN(ret)

\* C24: in every iteration the price that is compared with the market price
\* is the call price of the pricer just constructed when option_type is
\* exactly "call", and its put price for every other value; the value of
\* option_type never makes the call raise.
C24_CallOnlyForExactString ==
    /\ [](spc = "priced" =>
            /\ bs.built /\ bs.at = iter
            /\ price = (IF args.option_type = "call"
                        THEN BSCallPrice(bs) ELSE BSPutPrice(bs))
            /\ diff = Sub(price, args.market_price))
    /\ [](spc = "raised" => D1Raises(args.K))
    /\ [][(spc = "loop" /\ iter < args.max_iter /\ ~D1Raises(args.K)) =>
            spc' = "priced"]_vars

\* a later iteration of a call with option_type = 'Call' prices the put
C24_Witness ==
    /\ spc = "priced"
    /\ args.option_type = "Call"
    /\ iter >= 1
    /\ price = BSPutPrice(bs)
    /\ price # BSCallPrice(bs)

\* an unrecognized option type is priced as a put as well
C24_WitnessUnrecognized ==
    /\ spc = "priced"
    /\ args.option_type = "straddle"
    /\ price = BSPutPrice(bs)
    /\ price # BSCallPrice(bs)

=============================================================================
